---- MODULE Spec2Model ----
(***************************************************************************)
(* Model of the KITTI format adapter of the dataset converter:             *)
(* src/backend/workers/lib/vod_converter/kitti.py (KITTIIngestor and       *)
(* KITTIEgestor).                                                          *)
(*                                                                         *)
(* A dataset directory is a record: the sub-directories it has, train.txt  *)
(* as a sequence of newline-terminated lines, the files under images/ as   *)
(* pairs <<stem, extension>>, and the files under labels/ as a function    *)
(* from stem to the rows csv.reader yields (a row is a sequence of fields; *)
(* the blank line is the empty row).  Floats are records [nan, v] so that  *)
(* float("nan") and its comparisons are kept.  Pixel dimensions of images  *)
(* are not modelled.                                                       *)
(***************************************************************************)
EXTENDS Integers, Sequences, FiniteSets, TLC

VARIABLES
    pc,                \* position of the running call
    src,               \* the source dataset directory
    tgt,               \* the target dataset directory
    root,              \* "src" or "tgt": the directory ingest reads
    image_ids,         \* ingest: ids read from train.txt
    image_ext,         \* ingest: the extension chosen for the run
    tmp,               \* ingest: the list built by the comprehension
    log,               \* every message(...) call so far, in order
    rows,              \* the labels file handed to _get_detections
    detections,        \* the detections list of _get_image_detection
    image_detections,  \* egest: its input
    i,                 \* egest: position in image_detections (1-based)
    run,               \* egest: 1 in the first call, 2 in the repeated call
    snapshot,          \* the target directory when the first egest returned
    first              \* the result of the first ingest of a round trip

vars == <<pc, src, tgt, root, image_ids, image_ext, tmp, log, rows,
          detections, image_detections, i, run, snapshot, first>>

(***************************************************************************)
(* Bounds of the model.                                                    *)
(***************************************************************************)
MaxRows == 5
MaxManifest == 3
MaxIngestRows == 1
MaxRecords == 3

Ids == {"a", "b"}

\* find_image_ext: for image_ext in ["png", "jpg"]
Exts == <<"png", "jpg">>

ExtSet == {Exts[k] : k \in 1..Len(Exts)}

None == [none |-> TRUE]

SeqsUpTo(S, n) == UNION {[1..k -> S] : k \in 0..n}

(***************************************************************************)
(* Floats: float(s) and str(x).                                            *)
(***************************************************************************)
Num(n) == [nan |-> FALSE, v |-> n]

NaN == [nan |-> TRUE, v |-> 0]

\* the strings float() accepts, among the fields the model uses
FloatTable ==
    [s \in {"0", "1", "2", "0.0", "1.0", "2.0", "-1", "nan"} |->
        CASE s \in {"0", "0.0"} -> Num(0)
          [] s \in {"1", "1.0"} -> Num(1)
          [] s \in {"2", "2.0"} -> Num(2)
          [] s = "-1" -> Num(-1)
          [] OTHER -> NaN]

\* float(s) raises ValueError outside the table
FloatOk(s) == s \in DOMAIN FloatTable

Float(s) == FloatTable[s]

\* str(x) of a float, as csv.writer writes it
Str(x) == IF x.nan THEN "nan" ELSE ToString(x.v) \o ".0"

\* x < y on floats: false as soon as one side is nan
Lt(x, y) == ~x.nan /\ ~y.nan /\ x.v < y.v

(***************************************************************************)
(* Rows of a labels file.                                                  *)
(***************************************************************************)
RowCar   == <<"Car", "0.00", "0", "-1", "0", "0", "1", "1">>
RowVan   == <<"Van", "0.00", "0", "-1", "1.0", "0", "2", "2.0">>
RowFlat  == <<"Car", "0.00", "0", "-1", "1", "0", "1", "2">>
RowInv   == <<"Van", "0.00", "0", "-1", "0", "2", "1", "1">>
RowNan   == <<"Car", "0.00", "0", "-1", "nan", "0", "1", "1">>
RowBad   == <<"Car", "0.00", "0", "-1", "0", "x", "1", "1">>
RowShort == <<"Van", "0.00", "0", "-1", "0", "0", "1">>
RowBlank == <<>>

RowSet == {RowCar, RowVan, RowFlat, RowInv, RowNan, RowBad, RowShort, RowBlank}

\* row[4:8]
BoxSlice(row) == SubSeq(row, 5, IF Len(row) < 8 THEN Len(row) ELSE 8)

\* x1, y1, x2, y2 = map(float, row[4:8]) raises ValueError when the slice has
\* fewer than four fields or one of them is not a float
RowParses(row) ==
    /\ Len(BoxSlice(row)) = 4
    /\ \A k \in 1..4 : FloatOk(BoxSlice(row)[k])

NewDetection(row, image_id) ==
    [id |-> image_id, image_id |-> image_id, label |-> row[1],
     left |-> Float(row[5]), right |-> Float(row[7]),
     top |-> Float(row[6]), bottom |-> Float(row[8]),
     area |-> None, segmentation |-> None,
     isbbox |-> TRUE, iscrowd |-> FALSE, keypoints |-> <<>>]

ValueErrorMessage(row) == [kind |-> "ValueError", row |-> row]

\* a plausible slip: rows too short to hold a box are skipped like blank lines
ParseRowSkipShort(acc, row, image_id) ==
    IF Len(row) < 8 THEN acc
    ELSE IF RowParses(row)
         THEN [acc EXCEPT !.detections = Append(@, NewDetection(row, image_id))]
         ELSE [acc EXCEPT !.log = Append(@, ValueErrorMessage(row))]

\* one iteration of the loop over the csv rows
ParseRow(acc, row, image_id) ==
    IF Len(row) = 0 THEN acc
    ELSE IF RowParses(row)
         THEN [acc EXCEPT !.detections = Append(@, NewDetection(row, image_id))]
         ELSE [acc EXCEPT !.log = Append(@, ValueErrorMessage(row))]

RECURSIVE ParseRows(_, _, _)
ParseRows(acc, file, image_id) ==
    IF file = <<>> THEN acc
    ELSE ParseRows(ParseRow(acc, Head(file), image_id), Tail(file), image_id)

\* _get_detections on an existing labels file: the detections and the messages
GetDetections(file, image_id) ==
    ParseRows([detections |-> <<>>, log |-> <<>>], file, image_id)

\* a plausible slip: <= where the code has <
KeepBoxLoose(det) ==
    /\ ~det.left.nan /\ ~det.right.nan /\ det.left.v <= det.right.v
    /\ Lt(det.top, det.bottom)

\* det["left"] < det["right"] and det["top"] < det["bottom"]
KeepBox(det) == Lt(det.left, det.right) /\ Lt(det.top, det.bottom)

FilterDegenerate(dets) == SelectSeq(dets, KeepBox)

(***************************************************************************)
(* Specification of the detections of one image: _get_detections followed  *)
(* by the filter of _get_image_detection, on every labels file of at most  *)
(* MaxRows rows.                                                           *)
(***************************************************************************)
EmptyDir ==
    [dirs |-> {}, train |-> [exists |-> FALSE, lines |-> <<>>],
     images |-> {}, labels |-> [x \in {} |-> <<>>]]

InitDetections ==
    /\ rows \in SeqsUpTo(RowSet, MaxRows)
    /\ pc = "get_detections"
    /\ src = EmptyDir /\ tgt = EmptyDir /\ root = "src"
    /\ image_ids = <<>> /\ image_ext = "png" /\ tmp = <<>> /\ log = <<>>
    /\ detections = <<>> /\ image_detections = <<>> /\ i = 1 /\ run = 1
    /\ snapshot = EmptyDir /\ first = <<>>

CallGetDetections ==
    /\ pc = "get_detections"
    /\ detections' = GetDetections(rows, "a").detections
    /\ log' = log \o GetDetections(rows, "a").log
    /\ pc' = "filter"
    /\ UNCHANGED <<src, tgt, root, image_ids, image_ext, tmp, rows,
                   image_detections, i, run, snapshot, first>>

CallFilter ==
    /\ pc = "filter"
    /\ detections' = FilterDegenerate(detections)
    /\ pc' = "filtered"
    /\ UNCHANGED <<src, tgt, root, image_ids, image_ext, tmp, log, rows,
                   image_detections, i, run, snapshot, first>>

NextDetections == CallGetDetections \/ CallFilter

SpecDetections == InitDetections /\ [][NextDetections]_vars

(***************************************************************************)
(* KITTIIngestor.                                                          *)
(***************************************************************************)
Dir(r) == IF r = "src" THEN src ELSE tgt

\* validate: both sub-directories and train.txt must exist
Validate(d) ==
    IF "images" \notin d.dirs THEN [ok |-> FALSE, reason |-> "images"]
    ELSE IF "labels" \notin d.dirs THEN [ok |-> FALSE, reason |-> "labels"]
    ELSE IF ~d.train.exists THEN [ok |-> FALSE, reason |-> "train.txt"]
    ELSE [ok |-> TRUE, reason |-> "None"]

\* str.strip() on the text of train.txt: leading and trailing blank lines go
\* (ids carry no white space of their own)
RECURSIVE LStrip(_)
LStrip(lines) ==
    IF lines # <<>> /\ Head(lines) = "" THEN LStrip(Tail(lines)) ELSE lines

RECURSIVE RStrip(_)
RStrip(lines) ==
    IF lines # <<>> /\ lines[Len(lines)] = ""
    THEN RStrip(SubSeq(lines, 1, Len(lines) - 1))
    ELSE lines

\* str.split("\n"): the empty text yields the list holding one empty string
Split(lines) == IF lines = <<>> THEN <<"">> ELSE lines

\* _get_image_ids: f.read().strip().split("\n")
GetImageIds(d) == Split(RStrip(LStrip(d.train.lines)))

\* find_image_ext: the first of png, jpg for which the file exists, else raise
RECURSIVE FindFrom(_, _, _)
FindFrom(d, image_id, k) ==
    IF k > Len(Exts) THEN [raised |-> TRUE, ext |-> "None"]
    ELSE IF <<image_id, Exts[k]>> \in d.images
         THEN [raised |-> FALSE, ext |-> Exts[k]]
         ELSE FindFrom(d, image_id, k + 1)

FindImageExt(d, image_id) == FindFrom(d, image_id, 1)

ImagePath(r, image_id, ext) ==
    [root |-> r, dir |-> "images", stem |-> image_id, ext |-> ext]

LabelsPath(r, image_id) ==
    [root |-> r, dir |-> "labels", stem |-> image_id, ext |-> "txt"]

FileNotFound(path) == [kind |-> "FileNotFoundError", path |-> path]

ImageRecord(r, image_id, ext) ==
    [id |-> image_id, dataset_id |-> None, path |-> ImagePath(r, image_id, ext),
     segmented_path |-> None, file_name |-> image_id \o "." \o ext]

\* _get_image_detection: the value returned and the messages emitted.  Any
\* exception (labels file or image file missing) is caught, reported, and the
\* function falls off its end: it returns None.
GetImageDetection(r, image_id, ext) ==
    IF image_id \notin DOMAIN Dir(r).labels
    THEN [value |-> None, log |-> <<FileNotFound(LabelsPath(r, image_id))>>]
    ELSE LET got == GetDetections(Dir(r).labels[image_id], image_id)
             dets == FilterDegenerate(got.detections)
         IN  IF <<image_id, ext>> \notin Dir(r).images
             THEN [value |-> None,
                   log |-> Append(got.log, FileNotFound(ImagePath(r, image_id, ext)))]
             ELSE [value |-> [image |-> ImageRecord(r, image_id, ext),
                              detections |-> dets],
                   log |-> got.log]

\* the pipeline calls validate before ingest
CallValidate ==
    /\ pc = "validate"
    /\ pc' = IF Validate(Dir(root)).ok THEN "ingest" ELSE "failed"
    /\ UNCHANGED <<src, tgt, root, image_ids, image_ext, tmp, log, rows,
                   detections, image_detections, i, run, snapshot, first>>

\* ingest up to the comprehension: read the ids, choose the extension from the
\* first id; find_image_ext raises when that id has neither png nor jpg
IngestBegin ==
    /\ pc = "ingest"
    /\ LET ids == GetImageIds(Dir(root))
           found == IF Len(ids) > 0 THEN FindImageExt(Dir(root), ids[1])
                    ELSE [raised |-> FALSE, ext |-> "png"]
       IN  /\ image_ids' = ids
           /\ image_ext' = found.ext
           /\ pc' = IF found.raised THEN "raised" ELSE "ingest_loop"
    /\ tmp' = <<>>
    /\ UNCHANGED <<src, tgt, root, log, rows, detections, image_detections,
                   i, run, snapshot, first>>

\* one element of the comprehension
IngestImage ==
    /\ pc = "ingest_loop"
    /\ Len(tmp) < Len(image_ids)
    /\ LET got == GetImageDetection(root, image_ids[Len(tmp) + 1], image_ext)
       IN  /\ tmp' = Append(tmp, got.value)
           /\ log' = log \o got.log
    /\ UNCHANGED <<pc, src, tgt, root, image_ids, image_ext, rows, detections,
                   image_detections, i, run, snapshot, first>>

IngestReturn ==
    /\ pc = "ingest_loop"
    /\ Len(tmp) = Len(image_ids)
    /\ log' = Append(log, [kind |-> "size", n |-> Len(tmp)])
    /\ pc' = "returned"
    /\ UNCHANGED <<src, tgt, root, image_ids, image_ext, tmp, rows, detections,
                   image_detections, i, run, snapshot, first>>

(***************************************************************************)
(* Source directories.                                                     *)
(***************************************************************************)
ManifestLines == Ids \cup {""}

IngestRows == {RowCar, RowFlat, RowBad}

LabelDirs ==
    UNION {[S -> SeqsUpTo(IngestRows, MaxIngestRows)] : S \in SUBSET Ids}

ValidDirs ==
    {[dirs |-> {"images", "labels"},
      train |-> [exists |-> TRUE, lines |-> m],
      images |-> im, labels |-> lb] :
        m \in SeqsUpTo(ManifestLines, MaxManifest),
        im \in SUBSET (Ids \X ExtSet),
        lb \in LabelDirs}

\* directories validate rejects
InvalidDirs ==
    {[dirs |-> d, train |-> [exists |-> e, lines |-> <<>>],
      images |-> {}, labels |-> [x \in {} |-> <<>>]] :
        d \in SUBSET {"images", "labels"}, e \in BOOLEAN}
    \ ValidDirs

InitIngest ==
    /\ src \in ValidDirs \cup InvalidDirs
    /\ pc = "validate"
    /\ tgt = EmptyDir /\ root = "src"
    /\ image_ids = <<>> /\ image_ext = "png" /\ tmp = <<>> /\ log = <<>>
    /\ rows = <<>> /\ detections = <<>> /\ image_detections = <<>>
    /\ i = 1 /\ run = 1 /\ snapshot = EmptyDir /\ first = <<>>

NextIngest == CallValidate \/ IngestBegin \/ IngestImage \/ IngestReturn

SpecIngest == InitIngest /\ [][NextIngest]_vars

(***************************************************************************)
(* KITTIEgestor.                                                           *)
(***************************************************************************)
DEFAULT_TRUNCATED == "0.0"

DEFAULT_OCCLUDED == "0"

\* the row csvwriter.writerow receives: [-1] * 15 with the label, the two
\* defaults and the box filled in, each field written with str()
KittiRow(detection) ==
    <<detection.label, DEFAULT_TRUNCATED, DEFAULT_OCCLUDED, "-1",
      Str(detection.left), Str(detection.top),
      Str(detection.right), Str(detection.bottom),
      "-1", "-1", "-1", "-1", "-1", "-1", "-1">>

KittiRows(dets) == [k \in 1..Len(dets) |-> KittiRow(dets[k])]

\* os.path.splitext(path)[-1] without its dot
SrcExtension(path) == path.ext

\* whether shutil.copyfile finds its source
SourceExists(path) == <<path.stem, path.ext>> \in Dir(path.root).images

\* a file of labels/ created or replaced
WithLabels(d, image_id, file) ==
    [d EXCEPT !.labels =
        [x \in DOMAIN d.labels \cup {image_id} |->
            IF x = image_id THEN file ELSE d.labels[x]]]

\* a plausible slip: train.txt opened with "w", losing the earlier lines
OpenWrite(train, line) == [exists |-> TRUE, lines |-> <<line>>]

\* open(id_file, "a") and one write of a newline-terminated line
OpenAppend(train, line) ==
    [exists |-> TRUE, lines |-> Append(train.lines, line)]

\* a plausible slip: the file name is written instead of the id
ManifestLineFileName(image) == image.file_name

\* f"{image_id}\n" without its newline
ManifestLine(image) == image.id

\* a plausible slip: the except branch reports and falls through
AfterCopyFailureFallThrough(k) == [pc |-> "egest_append", i |-> k]

\* the except branch: message(e); continue
AfterCopyFailure(k) == [pc |-> "egest_loop", i |-> k + 1]

\* a plausible slip: the copy lands in labels_dir instead of images_dir
CopyResultWrongDir(d, image_id, ext) ==
    WithLabels(d, image_id \o "." \o ext, <<>>)

\* the target after a successful shutil.copyfile
CopyResult(d, image_id, ext) ==
    [d EXCEPT !.images = @ \cup {<<image_id, ext>>}]

\* the two os.makedirs(..., exist_ok=True)
EgestBegin ==
    /\ pc = "egest"
    /\ tgt' = [tgt EXCEPT !.dirs = @ \cup {"images", "labels"}]
    /\ i' = 1
    /\ pc' = "egest_loop"
    /\ UNCHANGED <<src, root, image_ids, image_ext, tmp, log, rows, detections,
                   image_detections, run, snapshot, first>>

\* the head of one iteration: image_detection["image"] raises TypeError on
\* None; the copy either succeeds or raises FileNotFoundError, which is
\* reported and ends the iteration
EgestCopy ==
    /\ pc = "egest_loop"
    /\ i <= Len(image_detections)
    /\ IF image_detections[i] = None
       THEN /\ pc' = "egest_raised"
            /\ UNCHANGED <<tgt, log, i>>
       ELSE LET image == image_detections[i].image
            IN  IF SourceExists(image.path)
                THEN /\ tgt' = CopyResult(tgt, image.id, SrcExtension(image.path))
                     /\ pc' = "egest_append"
                     /\ UNCHANGED <<log, i>>
                ELSE /\ log' = Append(log, FileNotFound(image.path))
                     /\ pc' = AfterCopyFailure(i).pc
                     /\ i' = AfterCopyFailure(i).i
                     /\ UNCHANGED tgt
    /\ UNCHANGED <<src, root, image_ids, image_ext, tmp, rows, detections,
                   image_detections, run, snapshot, first>>

EgestAppend ==
    /\ pc = "egest_append"
    /\ tgt' = [tgt EXCEPT !.train =
                   OpenAppend(@, ManifestLine(image_detections[i].image))]
    /\ pc' = "egest_open_labels"
    /\ UNCHANGED <<src, root, image_ids, image_ext, tmp, log, rows, detections,
                   image_detections, i, run, snapshot, first>>

\* open(out_labels_path, "w"): the file exists and is empty
EgestOpenLabels ==
    /\ pc = "egest_open_labels"
    /\ tgt' = WithLabels(tgt, image_detections[i].image.id, <<>>)
    /\ pc' = "egest_write_labels"
    /\ UNCHANGED <<src, root, image_ids, image_ext, tmp, log, rows, detections,
                   image_detections, i, run, snapshot, first>>

\* the rows of the image's detections, written when the file is closed
EgestWriteLabels ==
    /\ pc = "egest_write_labels"
    /\ tgt' = WithLabels(tgt, image_detections[i].image.id,
                         KittiRows(image_detections[i].detections))
    /\ i' = i + 1
    /\ pc' = "egest_loop"
    /\ UNCHANGED <<src, root, image_ids, image_ext, tmp, log, rows, detections,
                   image_detections, run, snapshot, first>>

EgestReturn ==
    /\ pc = "egest_loop"
    /\ i > Len(image_detections)
    /\ pc' = "egest_returned"
    /\ UNCHANGED <<src, tgt, root, image_ids, image_ext, tmp, log, rows,
                   detections, image_detections, i, run, snapshot, first>>

\* the same conversion run once more: same image_detections, same target root
EgestAgain ==
    /\ pc = "egest_returned"
    /\ run = 1
    /\ run' = 2
    /\ snapshot' = tgt
    /\ pc' = "egest"
    /\ UNCHANGED <<src, tgt, root, image_ids, image_ext, tmp, log, rows,
                   detections, image_detections, i, first>>

(***************************************************************************)
(* Specification of egest: the input is a list of records as ingest builds *)
(* them (one extension for the run, None for an id it could not read),     *)
(* the source images may have gone since, the target starts empty.         *)
(***************************************************************************)
EgestDetections(image_id) ==
    {<<>>, <<NewDetection(RowCar, image_id), NewDetection(RowVan, image_id)>>}

EgestRecords(ext) ==
    UNION {{[image |-> ImageRecord("src", id, ext), detections |-> dets] :
                dets \in EgestDetections(id)} : id \in Ids}

InitEgest ==
    /\ \E ext \in ExtSet :
          image_detections \in SeqsUpTo(EgestRecords(ext) \cup {None}, MaxRecords)
    /\ \E im \in SUBSET (Ids \X ExtSet) : src = [EmptyDir EXCEPT !.images = im]
    /\ pc = "egest"
    /\ tgt = EmptyDir /\ root = "src"
    /\ image_ids = <<>> /\ image_ext = "png" /\ tmp = <<>> /\ log = <<>>
    /\ rows = <<>> /\ detections = <<>>
    /\ i = 1 /\ run = 1 /\ snapshot = EmptyDir /\ first = <<>>

NextEgest ==
    \/ EgestBegin \/ EgestCopy \/ EgestAppend \/ EgestOpenLabels
    \/ EgestWriteLabels \/ EgestReturn \/ EgestAgain

SpecEgest == InitEgest /\ [][NextEgest]_vars

(***************************************************************************)
(* Specification of the identity conversion: ingest the source, egest the  *)
(* result into the empty target, ingest the target.                        *)
(***************************************************************************)
\* the result of ingest is handed to egest
Convert ==
    /\ pc = "returned"
    /\ root = "src"
    /\ first' = tmp
    /\ image_detections' = tmp
    /\ pc' = "egest"
    /\ UNCHANGED <<src, tgt, root, image_ids, image_ext, tmp, log, rows,
                   detections, i, run, snapshot>>

\* the target is read back
Reingest ==
    /\ pc = "egest_returned"
    /\ root = "src"
    /\ root' = "tgt"
    /\ pc' = "validate"
    /\ UNCHANGED <<src, tgt, image_ids, image_ext, tmp, log, rows, detections,
                   image_detections, i, run, snapshot, first>>

InitRoundTrip == InitIngest

NextRoundTrip ==
    \/ CallValidate \/ IngestBegin \/ IngestImage \/ IngestReturn
    \/ Convert
    \/ EgestBegin \/ EgestCopy \/ EgestAppend \/ EgestOpenLabels
    \/ EgestWriteLabels \/ EgestReturn
    \/ Reingest

SpecRoundTrip == InitRoundTrip /\ [][NextRoundTrip]_vars

(***************************************************************************)
(* Properties.                                                             *)
(***************************************************************************)
Positions(seq) == 1..Len(seq)

\* how many members of S are at most k
Rank(S, k) == Cardinality({j \in S : j <= k})

TrainIds(d) == {d.train.lines[k] : k \in Positions(d.train.lines)}

HasImage(d, image_id) == \E e \in ExtSet : <<image_id, e>> \in d.images

NumericStrings == {"0", "1", "2", "0.0", "1.0", "2.0", "-1", "nan"}

Unparsable(row) ==
    Len(row) < 8 \/ \E k \in 5..8 : row[k] \notin NumericStrings

ValidRow(row) ==
    /\ ~Unparsable(row)
    /\ Lt(Float(row[5]), Float(row[7]))
    /\ Lt(Float(row[6]), Float(row[8]))

\* parsed, with left >= right or top >= bottom
DegenerateRow(row) ==
    /\ ~Unparsable(row)
    /\ \A k \in 5..8 : ~Float(row[k]).nan
    /\ \/ Float(row[5]).v >= Float(row[7]).v
       \/ Float(row[6]).v >= Float(row[8]).v

SameBox(det, row) ==
    /\ det.label = row[1]
    /\ det.left = Float(row[5]) /\ det.top = Float(row[6])
    /\ det.right = Float(row[7]) /\ det.bottom = Float(row[8])

\* dets are the detections of the rows of file at the positions S, in order
DetectionsOf(dets, file, S) ==
    /\ Len(dets) = Cardinality(S)
    /\ \A k \in S : SameBox(dets[Rank(S, k)], file[k])

MissingImagePositions ==
    {k \in Positions(image_ids) : ~HasImage(src, image_ids[k])}

FileNotFoundCount(image_id) ==
    Cardinality({k \in Positions(log) :
        log[k].kind = "FileNotFoundError" /\ log[k].path.stem = image_id})

\* C1: when ingest returns, the returned list holds no entry of any kind for
\* a manifest line whose id has no image file (its length is at most the
\* number of the other lines, and no record carries such an id), and one
\* warning was emitted for each such line.
C1_MissingImageExcluded ==
    pc = "returned" =>
        /\ Len(tmp) + Cardinality(MissingImagePositions) <= Len(image_ids)
        /\ \A k \in MissingImagePositions :
              /\ \A j \in Positions(tmp) :
                    tmp[j] # None => tmp[j].image.id # image_ids[k]
              /\ FileNotFoundCount(image_ids[k]) =
                    Cardinality({j \in Positions(image_ids) :
                                    image_ids[j] = image_ids[k]})

\* C2: after validate has returned ok, ingest never raises.
C2_IngestNeverRaises == pc # "raised"

WantedExt(image_id) == IF <<image_id, "png">> \in src.images THEN "png" ELSE "jpg"

\* C9: when ingest returns, every id of the manifest that has a png or jpg
\* image and a labels file has a record in the output, whose path and
\* file_name use png if the png exists and jpg otherwise.
C9_ExtensionPerImage ==
    pc = "returned" =>
        \A k \in Positions(image_ids) :
            (HasImage(src, image_ids[k]) /\ image_ids[k] \in DOMAIN src.labels) =>
                \E j \in Positions(tmp) :
                    /\ tmp[j] # None
                    /\ tmp[j].image.id = image_ids[k]
                    /\ tmp[j].image.path.ext = WantedExt(image_ids[k])
                    /\ tmp[j].image.file_name =
                          image_ids[k] \o "." \o WantedExt(image_ids[k])

ValidPositions == {k \in Positions(rows) : ValidRow(rows[k])}

\* C3: after the filter every detection has left < right and top < bottom,
\* and the detections are those of the valid rows of the file, in file order:
\* degenerate rows are dropped, valid rows are all kept.
C3_DegenerateDropped ==
    pc = "filtered" =>
        /\ \A k \in Positions(detections) :
              /\ Lt(detections[k].left, detections[k].right)
              /\ Lt(detections[k].top, detections[k].bottom)
        /\ DetectionsOf(detections, rows, ValidPositions)

\* a file of 3 valid and 2 degenerate rows has yielded exactly 3 detections
C3_Witness ==
    /\ pc = "filtered"
    /\ Len(rows) = 5
    /\ Cardinality(ValidPositions) = 3
    /\ Cardinality({k \in Positions(rows) : DegenerateRow(rows[k])}) = 2
    /\ Len(detections) = 3

UnparsablePositions == {k \in Positions(rows) : Unparsable(rows[k])}

\* N non-empty rows, exactly one unparsable, the others valid
OneBadRow ==
    /\ \A k \in Positions(rows) : Len(rows[k]) > 0
    /\ Cardinality(UnparsablePositions) = 1
    /\ \A k \in Positions(rows) \ UnparsablePositions : ValidRow(rows[k])

\* C4: _get_detections on a file of N non-empty rows, one of them unparsable
\* and the others valid, returns the N-1 detections of the other rows in file
\* order and emits exactly one warning, which is about the unparsable row.
C4_MalformedRowSkipped ==
    (pc = "filter" /\ OneBadRow) =>
        /\ Len(detections) = Len(rows) - 1
        /\ DetectionsOf(detections, rows, Positions(rows) \ UnparsablePositions)
        /\ Len(log) = 1
        /\ \A k \in UnparsablePositions : log[1] = ValueErrorMessage(rows[k])

\* the unparsable row is a short one with valid rows before and after it
C4_Witness ==
    /\ pc = "filter"
    /\ OneBadRow
    /\ \E k \in UnparsablePositions : 1 < k /\ k < Len(rows) /\ Len(rows[k]) < 8
    /\ Len(detections) = Len(rows) - 1
    /\ Len(log) = 1

\* ids for which an image copy failed
FailedIds ==
    {log[k].path.stem : k \in {j \in Positions(log) : log[j].kind = "FileNotFoundError"}}

\* C5: after egest returns, every id of the target train.txt has an image file
\* and a labels file in the target, and no id whose image copy failed is in
\* train.txt or has a labels file.
C5_ManifestIntegrity ==
    pc = "egest_returned" =>
        /\ \A id \in TrainIds(tgt) : HasImage(tgt, id) /\ id \in DOMAIN tgt.labels
        /\ \A id \in FailedIds : id \notin TrainIds(tgt) /\ id \notin DOMAIN tgt.labels

\* egest has returned, having written some ids and skipped a failed copy
C5_Witness ==
    /\ pc = "egest_returned"
    /\ TrainIds(tgt) # {}
    /\ FailedIds # {}

\* C10: in every state of an egest run, each id of the target train.txt has
\* its image in the target already, and each labels file of the target belongs
\* to an id already in train.txt: copy, then append, then labels.
C10_ManifestOnlyCopied ==
    /\ \A id \in TrainIds(tgt) : HasImage(tgt, id)
    /\ \A id \in DOMAIN tgt.labels : id \in TrainIds(tgt)

\* mid-run, in the second iteration or later: the image is copied and its id
\* is not yet in train.txt
C10_Witness ==
    /\ pc = "egest_append"
    /\ i > 1
    /\ TrainIds(tgt) # {}
    /\ HasImage(tgt, image_detections[i].image.id)
    /\ image_detections[i].image.id \notin TrainIds(tgt)

\* C7 as stated: a second egest with the same input and target leaves the
\* target directory as the first run left it.
C7_Idempotent ==
    (pc = "egest_returned" /\ run = 2) => tgt = snapshot

\* C7 amended: a second egest with the same input and target leaves the image
\* files and every labels file as the first run left them, and appends the
\* ids of the copied records to train.txt again: it holds the first run's
\* lines twice.
C7_RerunAppends ==
    (pc = "egest_returned" /\ run = 2) =>
        /\ tgt.dirs = snapshot.dirs
        /\ tgt.images = snapshot.images
        /\ tgt.labels = snapshot.labels
        /\ tgt.train.exists = snapshot.train.exists
        /\ tgt.train.lines = snapshot.train.lines \o snapshot.train.lines

\* the second run has returned and the first had written ids
C7_Witness ==
    /\ pc = "egest_returned"
    /\ run = 2
    /\ Len(snapshot.train.lines) > 0
    /\ Cardinality(DOMAIN snapshot.labels) > 0

CopiedPositions ==
    {k \in Positions(image_detections) :
        image_detections[k] # None /\ SourceExists(image_detections[k].image.path)}

\* one line per copied record, in input order
LinesAreCopiedIds ==
    /\ Len(tgt.train.lines) = Cardinality(CopiedPositions)
    /\ \A k \in CopiedPositions :
          tgt.train.lines[Rank(CopiedPositions, k)] = image_detections[k].image.id

\* C8 as stated: one egest on a target without train.txt writes the ids of
\* the records whose copy succeeded, in input order, one line per record, and
\* no id is on more than one line.
C8_ManifestExact ==
    (pc = "egest_returned" /\ run = 1) =>
        /\ LinesAreCopiedIds
        /\ \A j, k \in Positions(tgt.train.lines) :
              tgt.train.lines[j] = tgt.train.lines[k] => j = k

\* C8 amended: the lines are the ids of the records whose copy succeeded, in
\* input order, one line per record, so that an id is on as many lines as
\* there are copied records carrying it; train.txt is created only if some
\* copy succeeded.
C8_ManifestPerRecord ==
    (pc = "egest_returned" /\ run = 1) =>
        /\ LinesAreCopiedIds
        /\ tgt.train.exists <=> (CopiedPositions # {})
        /\ \A id \in Ids :
              Cardinality({k \in Positions(tgt.train.lines) : tgt.train.lines[k] = id})
                = Cardinality({k \in CopiedPositions : image_detections[k].image.id = id})

\* the run has skipped a record whose copy failed and written the id of two
\* copied records, one line each
C8_Witness ==
    /\ pc = "egest_returned"
    /\ run = 1
    /\ Len(tgt.train.lines) = 2
    /\ tgt.train.lines[1] = tgt.train.lines[2]
    /\ Cardinality(CopiedPositions) < Len(image_detections)

SameDetection(d, e) ==
    /\ d.label = e.label
    /\ d.left = e.left /\ d.top = e.top
    /\ d.right = e.right /\ d.bottom = e.bottom

SameRecord(x, y) ==
    /\ x # None /\ y # None
    /\ x.image.id = y.image.id
    /\ Len(x.detections) = Len(y.detections)
    /\ \A k \in Positions(x.detections) : SameDetection(x.detections[k], y.detections[k])

SameDataset(xs, ys) ==
    /\ Len(xs) = Len(ys)
    /\ \A k \in Positions(xs) : SameRecord(xs[k], ys[k])

\* C6: once the source has been ingested, egest into the empty target
\* returns, the target is ingested in turn, and that second result has the
\* same ids in the same order and per image the same detections.
C6_IdentityConversion ==
    /\ pc # "egest_raised"
    /\ root = "tgt" => pc \notin {"failed", "raised"}
    /\ (root = "tgt" /\ pc = "returned") => SameDataset(first, tmp)

====
